---------------------------- MODULE Spec2Model ----------------------------
(***************************************************************************)
(* A model of the humanizer's rewrite loop (src/main.py) and of its score  *)
(* aggregator (src/aichecker.py).                                          *)
(*                                                                         *)
(* Four state machines share the module:                                   *)
(*   Spec       main(): initial evaluation, round boundary, candidate      *)
(*              generation, candidate evaluation, accept / roll back,      *)
(*              cleanup.  The aggregator check_async is the operator       *)
(*              CheckAsync, applied to the providers' results.             *)
(*              SpecLive is main() with fairness, SpecSelect main() from   *)
(*              the decision of its first round.                           *)
(*   SpecBatch  batch_requests(): chunks, gather, pacing delay.            *)
(*   SpecRetry  the retry loops: api_call_with_backoff, AIChecker.zerogpt  *)
(*              and AIChecker.originality.                                 *)
(*   SpecAgg    check_async: the fan-out over the providers, then the      *)
(*              merge.                                                     *)
(*                                                                         *)
(* A text is a sequence of sentences; a sentence is a token (a number)     *)
(* compared by equality, as the code compares sentence strings.            *)
(***************************************************************************)
EXTENDS Integers, Sequences, FiniteSets, TLC

---------------------------------------------------------------------------
(* Program constants. *)

\* main.py:10
MAX_ROLLBACKS == 3

\* main.py:11
TARGET_SCORE == 30

---------------------------------------------------------------------------
(* Bounds of the model. *)

\* main.py:9 sets CHOICES = 7; the model generates this many candidates a round.
CHOICES == 2

\* Sentences of the essay read from ESSAY_FILE: the essay is <<1, .., DocLen>>.
DocLen == 1

\* All sentences are 1 .. NTokens; those past the essay's are the sentences
\* the rewrite model answers with.
NTokens == 2

\* Overall scores a provider reports: TARGET_SCORE + ScoreStep * k, k in 0 .. MaxScoreLevel.
ScoreStep == 10

MaxScoreLevel == 2

\* Rounds the model runs before it stops exploring: enough for an accepted
\* round followed by MAX_ROLLBACKS rolled-back ones.
MaxRounds == 4

Tokens == 1 .. NTokens

RewritePool == (DocLen + 1) .. NTokens

Scores == {TARGET_SCORE + ScoreStep * k : k \in 0 .. MaxScoreLevel}

Essay == [i \in 1 .. DocLen |-> i]

---------------------------------------------------------------------------
(* Sequence helpers standing for Python's built-ins. *)

\* sum(list)
RECURSIVE Sum(_)
Sum(s) == IF s = <<>> THEN 0 ELSE Head(s) + Sum(Tail(s))

\* x in list
InSeq(x, s) == \E i \in DOMAIN s : s[i] = x

\* The keys of a dict filled in the order of s: s without repetitions, in
\* order of first occurrence.
RECURSIVE Dedup(_)
Dedup(s) ==
    IF s = <<>> THEN <<>>
    ELSE LET d == Dedup(SubSeq(s, 1, Len(s) - 1))
             x == s[Len(s)]
         IN IF InSeq(x, d) THEN d ELSE Append(d, x)

\* str.replace(old, new, 1): only the first occurrence is replaced.
ReplaceFirst(text, old, new) ==
    IF InSeq(old, text)
    THEN LET i == CHOOSE k \in DOMAIN text :
                     /\ text[k] = old
                     /\ \A j \in DOMAIN text : text[j] = old => k <= j
         IN [text EXCEPT ![i] = new]
    ELSE text

\* [f(x) for x in s if p(x)] building blocks.
RECURSIVE Concat(_)
Concat(ss) == IF ss = <<>> THEN <<>> ELSE Head(ss) \o Concat(Tail(ss))

---------------------------------------------------------------------------
(* The detection providers and the aggregator (src/aichecker.py). *)

\* AIChecker.__init__: self.providers = [self.zerogpt]
providers == <<"zerogpt">>

\* A provider's {"status": "failed"} (the fields a failed result lacks are
\* filled with blanks, never read by the aggregator).
FailedResult == [status |-> "failed", provider |-> "", score |-> 0, sentences |-> <<>>]

\* AIChecker.zerogpt's success result: the sentences of data.h scored 100
\* followed by those of data.sentences scored 0; score is fakePercentage.
ZeroGptResult(fakePercentage, h, human) ==
    [status    |-> "success",
     provider  |-> "zerogpt",
     score     |-> fakePercentage,
     sentences |-> [i \in 1 .. Len(h) |-> [text |-> h[i], score |-> 100]]
                   \o [i \in 1 .. Len(human) |-> [text |-> human[i], score |-> 0]]]

\* The exceptions a provider's try block can meet that its except clause
\* (aiohttp.ClientError, asyncio.TimeoutError, KeyError) does not name:
\* json.JSONDecodeError, a ValueError, from response.json() on a body that is
\* not JSON; TypeError from data["data"]["h"] when data["data"] is null or a
\* list (AttributeError, from .get or .strip on a value of another type,
\* behaves alike).
Uncaught == {"JSONDecodeError", "TypeError"}

\* A provider call that raised exc returns nothing: status holds the exception.
RaisedResult(exc) == [status |-> exc, provider |-> "", score |-> 0, sentences |-> <<>>]

IsRaise(r) == r.status \in Uncaught

\* What zerogpt can answer for a text: failed, an exception, or any overall
\* score with any subset of the text's sentences reported as AI (data.h), the
\* rest as human.
ZeroGptOutcomes(text) ==
    LET sents == Dedup(text)
        idx   == DOMAIN sents
    IN {FailedResult} \cup {RaisedResult(e) : e \in Uncaught} \cup
       {ZeroGptResult(sc,
                      SelectSeq(sents, LAMBDA x : \E i \in m : sents[i] = x),
                      SelectSeq(sents, LAMBDA x : ~ \E i \in m : sents[i] = x))
          : sc \in Scores, m \in SUBSET idx}

\* asyncio.gather(*[p(text) for p in self.providers]): one result a provider,
\* in the order of self.providers.
ProviderRuns(text) ==
    {rs \in [DOMAIN providers -> ZeroGptOutcomes(text)] : TRUE}

\* The mean as check_async computes it, sum(scores) / len(scores), for a
\* non-empty list.  With the one registered provider it is that provider's score.
Mean(scores) == Sum(scores) \div Len(scores)

\* A mutant of Succeeded: a failed result is merged like any other.
Succeeded_All(results) == results

\* aichecker.py:20-22: the results the loop does not skip.
Succeeded(results) == SelectSeq(results, LAMBDA r : r.status # "failed")

\* A mutant of FlaggedByMean: >= for >.
FlaggedByMean_AtLeast(score_list) == Sum(score_list) >= 50 * Len(score_list)

\* aichecker.py:36-37: avg_score > 50, with avg_score = sum / len and len > 0.
FlaggedByMean(score_list) == Sum(score_list) > 50 * Len(score_list)

\* AIChecker.check_async.  raised is the exception that leaves the call, ""
\* when the aggregate is returned: an exception of a provider, which gather
\* (aichecker.py:15) lets through, or "ZeroDivisionError" when the division
\* of the return statement faults.
CheckAsync(text, results) ==
    LET thrown   == SelectSeq(results, IsRaise)
        ok       == Succeeded(results)
        scores   == [i \in 1 .. Len(ok) |-> ok[i].score]
        provs    == [i \in 1 .. Len(ok) |-> ok[i].provider]
        pairs    == Concat([i \in 1 .. Len(ok) |-> ok[i].sentences])
        keys     == Dedup([i \in 1 .. Len(pairs) |-> pairs[i].text])
        list(k)  == LET of == SelectSeq(pairs, LAMBDA p : p.text = k)
                    IN [i \in 1 .. Len(of) |-> of[i].score]
        fake     == SelectSeq(keys, LAMBDA k : FlaggedByMean(list(k)))
    IN IF thrown # <<>>
       THEN [raised |-> thrown[1].status, score |-> 0, fake_sentences |-> <<>>,
             text |-> text, providers |-> <<>>]
       ELSE IF Len(scores) = 0
       THEN [raised |-> "ZeroDivisionError", score |-> 0, fake_sentences |-> <<>>,
             text |-> text, providers |-> provs]
       ELSE [raised |-> "", score |-> Mean(scores), fake_sentences |-> fake,
             text |-> text, providers |-> provs]

---------------------------------------------------------------------------
(* main(): the round controller (src/main.py). *)

VARIABLES
    pc,                      \* where main() is: "start", "loop", "gen", "check",
                             \* "rollback_check", "done", "fatal", "exit", "raised"
    current_text,
    previous_score,          \* the current overall score
    current_fake_sentences,  \* the current flagged segments, a list
    best_ever_text,
    best_ever_score,
    best_ever_round,
    consecutive_rollbacks,
    failure_history,         \* the failure narrative; NoNarrative is ""
    score_history,           \* the round log
    sentence_history,        \* original sentence -> list of <<round, score, rewrite>>
    round_num,
    candidates,              \* this round's candidates, [text, rewrites]
    results,                 \* this round's evaluation of each candidate
    last_evals,              \* the check_async calls of the last evaluation step:
                             \* [phase, statuses of the providers, raised,
                             \* fake_sentences]
    reason,                  \* why the loop stopped: which break was taken
    final,                   \* what main() reports at the end: [text, score, round]
    error,                   \* the exception that left the try block, "" if none
    closed                   \* how many times checker.close() ran

mainVars == <<pc, current_text, previous_score, current_fake_sentences,
              best_ever_text, best_ever_score, best_ever_round,
              consecutive_rollbacks, failure_history, score_history,
              sentence_history, round_num, candidates, results, last_evals,
              reason, final, error, closed>>

\* batch_requests' state (src/main.py:43-64).
VARIABLES
    tasks,        \* the coroutines handed in: tasks[k + 1] is TRUE when task k raises
    batch_size,
    b_pc,         \* "loop", "gather", "sleep", "returned", "raised"
    b_i,          \* the loop variable i
    b_results,    \* results: the tasks whose results were collected, in order
    b_started,    \* the tasks gather has started
    b_done,       \* the tasks that completed (returned or raised)
    b_chunks,     \* the batches handed to gather, in order
    b_sleeps,     \* each asyncio.sleep(delay): the value of i, and how many
                  \* batches had been handed to gather
    b_exc         \* the task whose exception batch_requests raised, -1 if none

batchVars == <<tasks, batch_size, b_pc, b_i, b_results, b_started, b_done,
               b_chunks, b_sleeps, b_exc>>

\* The retry loops' state (src/main.py:22-41, src/aichecker.py:47-180).
VARIABLES
    r_kind,       \* "rewrite" (api_call_with_backoff), "zerogpt", "originality"
    r_pc,         \* "call", "sleep", "returned", "raised"
    attempt,      \* the loop variable attempt
    r_log,        \* what each invocation of the operation ended with, in order
    r_delays,     \* the delay of each asyncio.sleep, in ticks, in order
    r_value,      \* the value returned: "result", "failed", or "" before the return
    r_exc         \* the exception raised to the caller, "" if none

retryVars == <<r_kind, r_pc, attempt, r_log, r_delays, r_value, r_exc>>

\* One call of check_async as a process (src/aichecker.py:14-45).
VARIABLES
    a_pc,         \* "gather", "returned", "raised"
    a_providers,  \* self.providers: the names of the registered providers
    a_results,    \* gather's result list: one slot a provider, by index
    a_done,       \* the providers in the order they completed
    a_agg,        \* the aggregate returned, <<>> before the return
    a_exc         \* the exception that left check_async, "" if none

aggVars == <<a_pc, a_providers, a_results, a_done, a_agg, a_exc>>

vars == <<mainVars, batchVars, retryVars, aggVars>>

\* failure_history = ""
NoNarrative == <<>>

\* The f-string of main.py:323-331: what it interpolates.
Narrative(round, best_result, best_score) ==
    <<"Previous round made things WORSE", round,
      Len(best_result.fake_sentences), best_result.score, best_score>>

\* What the log of an evaluation step keeps of one check_async call.
EvalRecord(phase, provider_results, agg) ==
    [phase    |-> phase,
     statuses |-> [i \in DOMAIN provider_results |-> provider_results[i].status],
     raised   |-> agg.raised,
     fake_sentences |-> agg.fake_sentences]

MainInit ==
    /\ pc = "start"
    /\ current_text = Essay
    /\ previous_score = 0
    /\ current_fake_sentences = <<>>
    /\ best_ever_text = <<>>
    /\ best_ever_score = 0
    /\ best_ever_round = 0
    /\ consecutive_rollbacks = 0
    /\ failure_history = NoNarrative
    /\ score_history = <<>>
    /\ sentence_history = [s \in Tokens |-> <<>>]
    /\ round_num = 0
    /\ candidates = <<>>
    /\ results = <<>>
    /\ last_evals = <<>>
    /\ reason = ""
    /\ final = <<>>
    /\ error = ""
    /\ closed = 0

\* An exception leaves the try block of main(): nothing else is assigned.
Fatal(exc) ==
    /\ pc' = "fatal"
    /\ error' = exc

\* main.py:109-114: open() of the essay or of the prompt file raises; no
\* provider was called, checker.session is still None.
ReadFails ==
    /\ pc = "start"
    /\ Fatal("OSError")
    /\ UNCHANGED <<current_text, previous_score, current_fake_sentences,
                   best_ever_text, best_ever_score, best_ever_round,
                   consecutive_rollbacks, failure_history, score_history,
                   sentence_history, round_num, candidates, results,
                   last_evals, reason, final, closed>>
    /\ UNCHANGED <<batchVars, retryVars, aggVars>>

\* main.py:116-136: the initial check and the initial search state.
InitialCheck ==
    /\ pc = "start"
    /\ \E rs \in ProviderRuns(current_text) :
         LET initial_result == CheckAsync(current_text, rs)
         IN /\ last_evals' = <<EvalRecord("initial", rs, initial_result)>>
            /\ IF initial_result.raised # ""
               THEN /\ Fatal(initial_result.raised)
                    /\ UNCHANGED <<previous_score, current_fake_sentences,
                                   best_ever_text, best_ever_score>>
               ELSE /\ previous_score' = initial_result.score
                    /\ current_fake_sentences' = initial_result.fake_sentences
                    /\ best_ever_text' = current_text
                    /\ best_ever_score' = initial_result.score
                    /\ pc' = "loop"
                    /\ error' = error
    /\ UNCHANGED <<current_text, best_ever_round, consecutive_rollbacks,
                   failure_history, score_history, sentence_history, round_num,
                   candidates, results, reason, final, closed>>
    /\ UNCHANGED <<batchVars, retryVars, aggVars>>

\* A mutant of NoFlaggedLeft: the test is skipped until a round has run.
NoFlaggedLeft_AfterFirstRound == current_fake_sentences = <<>> /\ round_num > 0

\* main.py:142  if not current_fake_sentences
NoFlaggedLeft == current_fake_sentences = <<>>

\* A mutant of TargetReached: < for <=.
TargetReached_Strict == previous_score < TARGET_SCORE

\* main.py:146  if previous_score <= TARGET_SCORE
TargetReached == previous_score <= TARGET_SCORE

\* main.py:150  if consecutive_rollbacks >= MAX_ROLLBACKS
RollbackLimitReached == consecutive_rollbacks >= MAX_ROLLBACKS

\* A mutant of Report: the text of the candidate attempted last is reported.
Report_LastCandidate ==
    [text  |-> IF results = <<>> THEN current_text ELSE candidates[Len(candidates)].text,
     score |-> best_ever_score,
     round |-> best_ever_round]

\* main.py:345-354: after the break, main() reports best_ever_*.
Report == [text |-> best_ever_text, score |-> best_ever_score, round |-> best_ever_round]

\* A break out of the while loop, then the report.
Stop(why) ==
    /\ pc' = "done"
    /\ reason' = why
    /\ final' = Report
    /\ UNCHANGED <<current_text, previous_score, current_fake_sentences,
                   best_ever_text, best_ever_score, best_ever_round,
                   consecutive_rollbacks, failure_history, score_history,
                   sentence_history, round_num, candidates, results,
                   last_evals, error, closed>>

\* main.py:142-144
StopCleared ==
    /\ pc = "loop"
    /\ NoFlaggedLeft
    /\ Stop("CLEARED")
    /\ UNCHANGED <<batchVars, retryVars, aggVars>>

\* main.py:146-148
StopTarget ==
    /\ pc = "loop"
    /\ ~ NoFlaggedLeft
    /\ TargetReached
    /\ Stop("TARGET_REACHED")
    /\ UNCHANGED <<batchVars, retryVars, aggVars>>

\* main.py:150-152
StopRollbackLimit ==
    /\ pc = "loop"
    /\ ~ NoFlaggedLeft
    /\ ~ TargetReached
    /\ RollbackLimitReached
    /\ Stop("ROLLBACK_LIMIT")
    /\ UNCHANGED <<batchVars, retryVars, aggVars>>

\* main.py:154-174: no break was taken; the round starts.
StartRound ==
    /\ pc = "loop"
    /\ ~ NoFlaggedLeft
    /\ ~ TargetReached
    /\ ~ RollbackLimitReached
    /\ round_num < MaxRounds
    /\ pc' = "gen"
    /\ candidates' = <<>>
    /\ UNCHANGED <<current_text, previous_score, current_fake_sentences,
                   best_ever_text, best_ever_score, best_ever_round,
                   consecutive_rollbacks, failure_history, score_history,
                   sentence_history, round_num, results, last_evals,
                   reason, final, error, closed>>
    /\ UNCHANGED <<batchVars, retryVars, aggVars>>

\* main.py:248-258: the candidate text and its rewrite map, built sentence by
\* sentence in the order of current_fake_sentences.  The rewrite map is a dict
\* filled in that order; the flagged sentences are the keys of a dict, so no
\* key is written twice, and the map is kept as the list of its items.
RECURSIVE BuildCandidate(_, _, _)
BuildCandidate(text, fake, rewrites) ==
    IF fake = <<>>
    THEN [text |-> text, rewrites |-> <<>>]
    ELSE LET n    == Len(fake)
             prev == BuildCandidate(text, SubSeq(fake, 1, n - 1), SubSeq(rewrites, 1, n - 1))
         IN [text     |-> ReplaceFirst(prev.text, fake[n], rewrites[n]),
             rewrites |-> Append(prev.rewrites, <<fake[n], rewrites[n]>>)]

\* main.py:175-262, one pass of the for loop: batch_requests returned the
\* rewrites of every flagged sentence, and the candidate is appended.
GenerateCandidate ==
    /\ pc = "gen"
    /\ Len(candidates) < CHOICES
    /\ \E rewrites \in [DOMAIN current_fake_sentences -> RewritePool] :
         candidates' = Append(candidates,
                              BuildCandidate(current_text, current_fake_sentences, rewrites))
    /\ pc' = IF Len(candidates) + 1 = CHOICES THEN "check" ELSE "gen"
    /\ UNCHANGED <<current_text, previous_score, current_fake_sentences,
                   best_ever_text, best_ever_score, best_ever_round,
                   consecutive_rollbacks, failure_history, score_history,
                   sentence_history, round_num, results, last_evals,
                   reason, final, error, closed>>
    /\ UNCHANGED <<batchVars, retryVars, aggVars>>

\* main.py:246: batch_requests raised (a rewrite call ran out of retries, or
\* met an API error): the exception leaves the loop.
RewriteFails ==
    /\ pc = "gen"
    /\ Len(candidates) < CHOICES
    /\ Fatal("RewriteError")
    /\ UNCHANGED <<current_text, previous_score, current_fake_sentences,
                   best_ever_text, best_ever_score, best_ever_round,
                   consecutive_rollbacks, failure_history, score_history,
                   sentence_history, round_num, candidates, results,
                   last_evals, reason, final, closed>>
    /\ UNCHANGED <<batchVars, retryVars, aggVars>>

\* main.py:266-267: the providers' results for every candidate, by index.
CandidateRuns(cands) ==
    {runs \in [DOMAIN cands -> UNION {ProviderRuns(cands[i].text) : i \in DOMAIN cands}] :
        \A i \in DOMAIN cands : runs[i] \in ProviderRuns(cands[i].text)}

\* The orders in which n concurrent awaitables can complete: order[k] is the
\* awaitable that completes k-th.
Orders(n) ==
    {o \in [1 .. n -> 1 .. n] : \A j, k \in 1 .. n : o[j] = o[k] => j = k}

\* A mutant of Gather: the results in the order they arrived.
Gather_ByCompletion(order, completed) == completed

\* main.py:267  results = await asyncio.gather(*check_tasks): completed[k] is
\* the result that arrived k-th, that of awaitable order[k]; gather returns
\* the results in the order of the awaitables.
Gather(order, completed) ==
    [i \in DOMAIN order |-> completed[CHOOSE k \in DOMAIN order : order[k] = i]]

\* gather without return_exceptions raises the first exception to arrive.
FirstRaised(completed) ==
    LET thrown == SelectSeq(completed, LAMBDA r : r.raised # "")
    IN thrown[1].raised

\* main.py:270: min(range(len(results)), key=...): the first index of the
\* least score.
BestIdx(res) ==
    CHOOSE i \in DOMAIN res :
        \A j \in DOMAIN res :
            /\ res[i].score <= res[j].score
            /\ res[j].score = res[i].score => i <= j

\* A mutant of RecordCandidate: every rewrite is recorded, flagged or not.
RECURSIVE RecordCandidate_Always(_, _, _, _)
RecordCandidate_Always(hist, rewrites, result, round) ==
    IF rewrites = <<>>
    THEN hist
    ELSE LET n    == Len(rewrites)
             prev == RecordCandidate_Always(hist, SubSeq(rewrites, 1, n - 1), result, round)
         IN [prev EXCEPT ![rewrites[n][1]] = Append(@, <<round, result.score, rewrites[n][2]>>)]

\* main.py:281-286 for one candidate: an entry for every rewrite that the
\* candidate's result still flags.
RECURSIVE RecordCandidate(_, _, _, _)
RecordCandidate(hist, rewrites, result, round) ==
    IF rewrites = <<>>
    THEN hist
    ELSE LET n    == Len(rewrites)
             prev == RecordCandidate(hist, SubSeq(rewrites, 1, n - 1), result, round)
             orig == rewrites[n][1]
             new  == rewrites[n][2]
         IN IF InSeq(new, result.fake_sentences)
            THEN [prev EXCEPT ![orig] = Append(@, <<round, result.score, new>>)]
            ELSE prev

\* main.py:278-286: every candidate, in order.
RECURSIVE UpdateHistory(_, _, _, _)
UpdateHistory(hist, cands, res, round) ==
    IF cands = <<>>
    THEN hist
    ELSE LET n == Len(cands)
         IN RecordCandidate(UpdateHistory(hist, SubSeq(cands, 1, n - 1),
                                          SubSeq(res, 1, n - 1), round),
                            cands[n].rewrites, res[n], round)

\* A mutant of Improves: <= for <.
Improves_OrEqual(score, best_score) == score <= best_score

\* main.py:295 and 299: best_result["score"] < best_ever_score
Improves(score, best_score) == score < best_score

\* A mutant of LogEntry: rolled_back is set only when the score is worse.
LogEntry_TieUnmarked(round, best_result, best_score) ==
    [round                |-> round,
     best_candidate_score |-> best_result.score,
     accepted             |-> best_result.score < best_score,
     rolled_back          |-> best_result.score > best_score]

\* main.py:292-297
LogEntry(round, best_result, best_score) ==
    [round                |-> round,
     best_candidate_score |-> best_result.score,
     accepted             |-> Improves(best_result.score, best_score),
     rolled_back          |-> ~ Improves(best_result.score, best_score)]

\* A mutant of Accept: consecutive_rollbacks is not reset.
Accept_KeepsRollbacks(best_candidate, best_result) ==
    /\ best_ever_text' = best_candidate.text
    /\ best_ever_score' = best_result.score
    /\ best_ever_round' = round_num + 1
    /\ consecutive_rollbacks' = consecutive_rollbacks
    /\ failure_history' = NoNarrative
    /\ current_text' = best_candidate.text
    /\ previous_score' = best_result.score
    /\ current_fake_sentences' = best_result.fake_sentences
    /\ round_num' = round_num + 1
    /\ pc' = "loop"

\* main.py:299-306 and 336-343: the candidate is committed.
Accept(best_candidate, best_result) ==
    /\ best_ever_text' = best_candidate.text
    /\ best_ever_score' = best_result.score
    /\ best_ever_round' = round_num + 1
    /\ consecutive_rollbacks' = 0
    /\ failure_history' = NoNarrative
    /\ current_text' = best_candidate.text
    /\ previous_score' = best_result.score
    /\ current_fake_sentences' = best_result.fake_sentences
    /\ round_num' = round_num + 1
    /\ pc' = "loop"

\* A mutant of RollbackBegin: the working text becomes the rejected candidate.
RollbackBegin_KeepsCandidate ==
    /\ consecutive_rollbacks' = consecutive_rollbacks + 1
    /\ current_text' = candidates[Len(candidates)].text
    /\ previous_score' = best_ever_score
    /\ pc' = "rollback_check"
    /\ UNCHANGED <<best_ever_text, best_ever_score, best_ever_round,
                   failure_history, current_fake_sentences, round_num>>

\* main.py:308-319: the roll back, up to the re-evaluation it awaits.
RollbackBegin ==
    /\ consecutive_rollbacks' = consecutive_rollbacks + 1
    /\ current_text' = best_ever_text
    /\ previous_score' = best_ever_score
    /\ pc' = "rollback_check"
    /\ UNCHANGED <<best_ever_text, best_ever_score, best_ever_round,
                   failure_history, current_fake_sentences, round_num>>

\* main.py:264-343: the candidates' evaluations arrived; the best is chosen,
\* the histories are updated, and the round is accepted or rolled back.
CheckCandidates ==
    /\ pc = "check"
    /\ \E runs \in CandidateRuns(candidates), order \in Orders(Len(candidates)) :
         LET completed == [k \in DOMAIN order |->
                              CheckAsync(candidates[order[k]].text, runs[order[k]])]
             res == Gather(order, completed)
             best_idx == BestIdx(res)
         IN /\ last_evals' = [i \in DOMAIN candidates |-> EvalRecord("candidate", runs[i], res[i])]
            /\ IF \E i \in DOMAIN res : res[i].raised # ""
               THEN /\ Fatal(FirstRaised(completed))
                    /\ UNCHANGED <<current_text, previous_score, current_fake_sentences,
                                   best_ever_text, best_ever_score, best_ever_round,
                                   consecutive_rollbacks, failure_history,
                                   score_history, sentence_history, round_num, results>>
               ELSE /\ results' = res
                    /\ sentence_history' =
                           UpdateHistory(sentence_history, candidates, res, round_num + 1)
                    /\ score_history' =
                           Append(score_history,
                                  LogEntry(round_num + 1, res[best_idx], best_ever_score))
                    /\ error' = error
                    /\ IF Improves(res[best_idx].score, best_ever_score)
                       THEN Accept(candidates[best_idx], res[best_idx])
                       ELSE RollbackBegin
    /\ UNCHANGED <<candidates, reason, final, closed>>
    /\ UNCHANGED <<batchVars, retryVars, aggVars>>

\* main.py:319-334: the re-evaluation of the restored text arrived.
RollbackCheck ==
    /\ pc = "rollback_check"
    /\ \E rs \in ProviderRuns(current_text) :
         LET rollback_result == CheckAsync(current_text, rs)
         IN /\ last_evals' = <<EvalRecord("rollback", rs, rollback_result)>>
            /\ IF rollback_result.raised # ""
               THEN /\ Fatal(rollback_result.raised)
                    /\ UNCHANGED <<current_fake_sentences, failure_history, round_num>>
               ELSE /\ current_fake_sentences' = rollback_result.fake_sentences
                    /\ failure_history' =
                           Narrative(round_num + 1, results[BestIdx(results)], best_ever_score)
                    /\ round_num' = round_num + 1
                    /\ pc' = "loop"
                    /\ error' = error
    /\ UNCHANGED <<current_text, previous_score, best_ever_text, best_ever_score,
                   best_ever_round, consecutive_rollbacks, score_history,
                   sentence_history, candidates, results, reason, final, closed>>
    /\ UNCHANGED <<batchVars, retryVars, aggVars>>

\* A mutant of Cleanup: close() at the end of the try block, not in finally.
Cleanup_NoFinally ==
    /\ pc \in {"done", "fatal"}
    /\ closed' = IF pc = "done" THEN closed + 1 ELSE closed
    /\ pc' = IF pc = "done" THEN "exit" ELSE "raised"
    /\ UNCHANGED <<current_text, previous_score, current_fake_sentences,
                   best_ever_text, best_ever_score, best_ever_round,
                   consecutive_rollbacks, failure_history, score_history,
                   sentence_history, round_num, candidates, results,
                   last_evals, reason, final, error>>
    /\ UNCHANGED <<batchVars, retryVars, aggVars>>

\* main.py:359-361: finally: await checker.close(); an exception is re-raised
\* after it (main.py:356-358).
Cleanup ==
    /\ pc \in {"done", "fatal"}
    /\ closed' = closed + 1
    /\ pc' = IF pc = "done" THEN "exit" ELSE "raised"
    /\ UNCHANGED <<current_text, previous_score, current_fake_sentences,
                   best_ever_text, best_ever_score, best_ever_round,
                   consecutive_rollbacks, failure_history, score_history,
                   sentence_history, round_num, candidates, results,
                   last_evals, reason, final, error>>
    /\ UNCHANGED <<batchVars, retryVars, aggVars>>

MainNext ==
    \/ ReadFails
    \/ InitialCheck
    \/ StopCleared
    \/ StopTarget
    \/ StopRollbackLimit
    \/ StartRound
    \/ GenerateCandidate
    \/ RewriteFails
    \/ CheckCandidates
    \/ RollbackCheck
    \/ Cleanup

---------------------------------------------------------------------------
(* batch_requests (src/main.py:43-64).  Tasks carry their Python index     *)
(* 0 .. len(tasks) - 1; the exception a task raises is named by its index. *)

\* Tasks handed to one call, and the largest batch size tried.
MaxTasks == 5

MaxBatch == 3

\* len(tasks)
NumTasks == Len(tasks)

\* tasks[i:i + batch_size], as the list of the tasks' indices.
Batch(i) ==
    LET last == IF i + batch_size < NumTasks THEN i + batch_size ELSE NumTasks
    IN [j \in 1 .. (last - i) |-> i + j - 1]

\* The tasks of a list, as a set.
Members(batch) == {batch[j] : j \in DOMAIN batch}

\* Task k raises.
Raises(k) == tasks[k + 1]

\* A mutant of FirstException: the last exception of the batch is raised.
FirstException_Last(batch) ==
    LET j == CHOOSE x \in DOMAIN batch :
                 /\ Raises(batch[x])
                 /\ \A y \in DOMAIN batch : Raises(batch[y]) => y <= x
    IN batch[j]

\* main.py:51-54: the first result, in the batch's order, that is an exception.
FirstException(batch) ==
    LET j == CHOOSE x \in DOMAIN batch :
                 /\ Raises(batch[x])
                 /\ \A y \in DOMAIN batch : Raises(batch[y]) => x <= y
    IN batch[j]

\* A mutant of MoreBatches: <= for <.
MoreBatches_OffByOne(i) == i + batch_size <= NumTasks

\* main.py:61  if i + batch_size < len(tasks)
MoreBatches(i) == i + batch_size < NumTasks

\* The machine is not running (the other specifications).
BatchIdle ==
    /\ tasks = <<>>
    /\ batch_size = 1
    /\ b_pc = "idle"
    /\ b_i = 0
    /\ b_results = <<>>
    /\ b_started = {}
    /\ b_done = {}
    /\ b_chunks = <<>>
    /\ b_sleeps = <<>>
    /\ b_exc = -1

\* A call batch_requests(tasks, batch_size, delay): main() always hands in at
\* least one task, one for each flagged sentence (main.py:142, 182, 246).
BatchInit ==
    /\ tasks \in UNION {[1 .. n -> BOOLEAN] : n \in 1 .. MaxTasks}
    /\ batch_size \in 1 .. MaxBatch
    /\ b_pc = "loop"
    /\ b_i = 0
    /\ b_results = <<>>
    /\ b_started = {}
    /\ b_done = {}
    /\ b_chunks = <<>>
    /\ b_sleeps = <<>>
    /\ b_exc = -1

\* main.py:45-48: the next batch is cut and asyncio.gather starts its tasks.
GatherStart ==
    /\ b_pc = "loop"
    /\ b_i < NumTasks
    /\ b_chunks' = Append(b_chunks, Batch(b_i))
    /\ b_started' = b_started \cup Members(Batch(b_i))
    /\ b_pc' = "gather"
    /\ UNCHANGED <<tasks, batch_size, b_i, b_results, b_done, b_sleeps, b_exc>>
    /\ UNCHANGED <<mainVars, retryVars, aggVars>>

\* A started task completes: it returns or raises, and gather keeps what it
\* did (return_exceptions=True).
TaskCompletes ==
    /\ b_pc = "gather"
    /\ \E k \in b_started \ b_done : b_done' = b_done \cup {k}
    /\ UNCHANGED <<tasks, batch_size, b_pc, b_i, b_results, b_started,
                   b_chunks, b_sleeps, b_exc>>
    /\ UNCHANGED <<mainVars, retryVars, aggVars>>

\* main.py:48-63: gather returned, every task of the batch having completed.
\* An exception among the results is raised; else the results are kept, and
\* the pause follows when tasks remain.
GatherDone ==
    /\ b_pc = "gather"
    /\ Members(Batch(b_i)) \subseteq b_done
    /\ IF \E k \in Members(Batch(b_i)) : Raises(k)
       THEN /\ b_exc' = FirstException(Batch(b_i))
            /\ b_pc' = "raised"
            /\ UNCHANGED <<b_results, b_i>>
       ELSE /\ b_results' = b_results \o Batch(b_i)
            /\ IF MoreBatches(b_i)
               THEN /\ b_pc' = "sleep"
                    /\ b_i' = b_i
               ELSE /\ b_pc' = "loop"
                    /\ b_i' = b_i + batch_size
            /\ b_exc' = b_exc
    /\ UNCHANGED <<tasks, batch_size, b_started, b_done, b_chunks, b_sleeps>>
    /\ UNCHANGED <<mainVars, retryVars, aggVars>>

\* main.py:63: await asyncio.sleep(delay), then the next pass of the loop.
PacingDelay ==
    /\ b_pc = "sleep"
    /\ b_sleeps' = Append(b_sleeps, [i |-> b_i, after |-> Len(b_chunks)])
    /\ b_i' = b_i + batch_size
    /\ b_pc' = "loop"
    /\ UNCHANGED <<tasks, batch_size, b_results, b_started, b_done, b_chunks, b_exc>>
    /\ UNCHANGED <<mainVars, retryVars, aggVars>>

\* main.py:64: return results
BatchReturn ==
    /\ b_pc = "loop"
    /\ b_i >= NumTasks
    /\ b_pc' = "returned"
    /\ UNCHANGED <<tasks, batch_size, b_i, b_results, b_started, b_done,
                   b_chunks, b_sleeps, b_exc>>
    /\ UNCHANGED <<mainVars, retryVars, aggVars>>

BatchNext ==
    \/ GatherStart
    \/ TaskCompletes
    \/ GatherDone
    \/ PacingDelay
    \/ BatchReturn

---------------------------------------------------------------------------
(* The retry loops: api_call_with_backoff (src/main.py:22-41) around a     *)
(* rewrite request, and the loops of AIChecker.zerogpt and                 *)
(* AIChecker.originality (src/aichecker.py:47-180) around a provider's     *)
(* request.  Delays are counted in ticks.                                  *)

\* main.py:22, aichecker.py:50 and 113
max_retries == 5

\* aichecker.py:51 and 114, in seconds
base_delay == 1

\* Ticks in a second: the resolution of random.uniform(0, 1).
TicksPerSecond == 2

\* How one invocation of a rewrite request can end: a completion, or an
\* openai exception.  RateLimitError and APIConnectionError are APIErrors,
\* caught by their own clauses first; APIResponseValidationError is the
\* APIError of a response that does not parse into a completion; "APIError"
\* is any other.
RewriteOutcomes ==
    {"ok", "RateLimitError", "APIConnectionError", "APIResponseValidationError", "APIError"}

\* aichecker.py:100 and 172: the exceptions the providers' except clause
\* names.  ClientError: a connection error, an HTTP error status out of
\* raise_for_status(), a body whose content type is not JSON
\* (ContentTypeError); TimeoutError: the 30 s timeout; KeyError: a field the
\* code indexes is missing.
Caught == {"ClientError", "TimeoutError", "KeyError"}

\* How one pass of a provider's try block can end: a response with the data,
\* a 429, an exception of the except clause, a body that is empty or lacks
\* "data", or an exception the clause does not name.
ProviderOutcomes == {"ok", "429", "NoData"} \cup Caught \cup Uncaught

\* random.uniform(0, 1) is 0 + (1 - 0) * random(), with random() in [0, 1).
Jitter == 0 .. (TicksPerSecond - 1)

\* A mutant of RateLimitWait: 2 * attempt for 2 ** attempt.
RateLimitWait_Linear(a, jitter) == TicksPerSecond * (2 * a) + jitter

\* main.py:30  (2 ** attempt) + random.uniform(0, 1)
RateLimitWait(a, jitter) == TicksPerSecond * (2 ^ a) + jitter

\* main.py:36  (2 ** attempt)
ConnectionWait(a) == TicksPerSecond * (2 ^ a)

\* aichecker.py:68, 79, 102  base_delay * (2 ** attempt)
ProviderDelay(a) == TicksPerSecond * base_delay * (2 ^ a)

\* A mutant of LastAttempt: max_retries for max_retries - 1.
LastAttempt_OffByOne(a) == a = max_retries

\* main.py:28 and 34  attempt == max_retries - 1
LastAttempt(a) == a = max_retries - 1

\* aichecker.py:67, 78, 101  attempt < max_retries - 1
MayRetry(a) == a < max_retries - 1

\* The machine is not running (the other specifications).
RetryIdle ==
    /\ r_kind = ""
    /\ r_pc = "idle"
    /\ attempt = 0
    /\ r_log = <<>>
    /\ r_delays = <<>>
    /\ r_value = ""
    /\ r_exc = ""

\* One call of api_call_with_backoff, zerogpt or originality.
RetryInit ==
    /\ r_kind \in {"rewrite", "zerogpt", "originality"}
    /\ r_pc = "call"
    /\ attempt = 0
    /\ r_log = <<>>
    /\ r_delays = <<>>
    /\ r_value = ""
    /\ r_exc = ""

RetryReturn(value) ==
    /\ r_pc' = "returned"
    /\ r_value' = value
    /\ UNCHANGED <<r_delays, r_exc>>

RetryRaise(exc) ==
    /\ r_pc' = "raised"
    /\ r_exc' = exc
    /\ UNCHANGED <<r_delays, r_value>>

\* await asyncio.sleep(wait)
RetrySleep(wait) ==
    /\ r_pc' = "sleep"
    /\ r_delays' = Append(r_delays, wait)
    /\ UNCHANGED <<r_value, r_exc>>

\* main.py:24-41, one pass of the loop of api_call_with_backoff.
RewriteAttempt ==
    /\ r_kind = "rewrite"
    /\ r_pc = "call"
    /\ attempt < max_retries
    /\ \E out \in RewriteOutcomes :
         /\ r_log' = Append(r_log, out)
         /\ CASE out = "ok" -> RetryReturn("result")
              [] out = "RateLimitError" ->
                     IF LastAttempt(attempt)
                     THEN RetryRaise(out)
                     ELSE \E jitter \in Jitter : RetrySleep(RateLimitWait(attempt, jitter))
              [] out = "APIConnectionError" ->
                     IF LastAttempt(attempt)
                     THEN RetryRaise(out)
                     ELSE RetrySleep(ConnectionWait(attempt))
              [] out \in {"APIResponseValidationError", "APIError"} -> RetryRaise(out)
    /\ UNCHANGED <<r_kind, attempt>>
    /\ UNCHANGED <<mainVars, batchVars, aggVars>>

\* aichecker.py:100-106 (and 66-72, 77-83; 131-137, 172-178): retry after the
\* delay, or give up with {"status": "failed"}.
RetryOrFail(a) ==
    IF MayRetry(a) THEN RetrySleep(ProviderDelay(a)) ELSE RetryReturn("failed")

\* aichecker.py:53-106, one pass of the loop of zerogpt.
ZeroGptAttempt ==
    /\ r_kind = "zerogpt"
    /\ r_pc = "call"
    /\ attempt < max_retries
    /\ \E out \in ProviderOutcomes :
         /\ r_log' = Append(r_log, out)
         /\ CASE out = "ok" -> RetryReturn("result")
              [] out = "429" -> RetryOrFail(attempt)
              [] out \in Caught -> RetryOrFail(attempt)
              [] out = "NoData" -> RetryOrFail(attempt)
              [] out \in Uncaught -> RetryRaise(out)
    /\ UNCHANGED <<r_kind, attempt>>
    /\ UNCHANGED <<mainVars, batchVars, aggVars>>

\* aichecker.py:116-178, one pass of the loop of originality: a 429 is raised
\* by resp.raise_for_status() as a ClientError.
OriginalityAttempt ==
    /\ r_kind = "originality"
    /\ r_pc = "call"
    /\ attempt < max_retries
    /\ \E out \in ProviderOutcomes :
         /\ r_log' = Append(r_log, out)
         /\ CASE out = "ok" -> RetryReturn("result")
              [] out \in {"429"} \cup Caught -> RetryOrFail(attempt)
              [] out = "NoData" -> RetryOrFail(attempt)
              [] out \in Uncaught -> RetryRaise(out)
    /\ UNCHANGED <<r_kind, attempt>>
    /\ UNCHANGED <<mainVars, batchVars, aggVars>>

\* The sleep ends: the next pass of the for loop.
NextAttempt ==
    /\ r_pc = "sleep"
    /\ attempt' = attempt + 1
    /\ r_pc' = "call"
    /\ UNCHANGED <<r_kind, r_log, r_delays, r_value, r_exc>>
    /\ UNCHANGED <<mainVars, batchVars, aggVars>>

RetryNext ==
    \/ RewriteAttempt
    \/ ZeroGptAttempt
    \/ OriginalityAttempt
    \/ NextAttempt

---------------------------------------------------------------------------
(* check_async as a process (src/aichecker.py:14-45): the fan-out over     *)
(* self.providers, every provider completing in its own time, then the     *)
(* merge of the results.                                                   *)

\* The provider methods AIChecker defines (aichecker.py:47 and 110).
ProviderNames == {"zerogpt", "originality"}

\* The lists self.providers can be set to: one provider, or two in either
\* order, the same method twice included.
ProviderLists ==
    {<<a>> : a \in ProviderNames} \cup {<<a, b>> : a \in ProviderNames, b \in ProviderNames}

\* aichecker.py:153  ai_percentage = fake_score * 100, for the values of
\* result.fake the model tries.
FakeScores == {0, 20, 80, 100}

\* The text the call is about: every sentence once.
AggText == [i \in 1 .. NTokens |-> i]

\* aichecker.py:141-171: originality's success result for the blocks of the
\* response, each [text, ai_percentage]: a sentence a block, the overall
\* score their mean, 0 when there is no block.
OriginalityResult(blocks) ==
    LET percentages == [i \in 1 .. Len(blocks) |-> blocks[i].ai_percentage]
    IN [status    |-> "success",
        provider  |-> "originality",
        score     |-> IF Len(blocks) > 0 THEN Sum(percentages) \div Len(blocks) ELSE 0,
        sentences |-> [i \in 1 .. Len(blocks) |->
                          [text |-> blocks[i].text, score |-> blocks[i].ai_percentage]]]

\* What originality can answer for a text: failed, an exception, or blocks
\* for any subset of the text's sentences, each with any ai_percentage.
OriginalityOutcomes(text) ==
    LET sents == Dedup(text)
        idx   == DOMAIN sents
        Blocks(m, f) ==
            LET picked == SelectSeq([i \in idx |-> i], LAMBDA i : i \in m)
            IN [k \in 1 .. Len(picked) |->
                   [text |-> sents[picked[k]], ai_percentage |-> f[picked[k]]]]
    IN {FailedResult} \cup {RaisedResult(e) : e \in Uncaught} \cup
       {OriginalityResult(Blocks(m, f)) : m \in SUBSET idx, f \in [idx -> FakeScores]}

\* p(text) for the provider named p.
Outcomes(p, text) ==
    IF p = "zerogpt" THEN ZeroGptOutcomes(text) ELSE OriginalityOutcomes(text)

\* The slot of a provider that has not completed.
NoResult == [status |-> "pending", provider |-> "", score |-> 0, sentences |-> <<>>]

NoAggregate == <<>>

Pending == {i \in DOMAIN a_results : a_results[i] = NoResult}

\* The machine is not running (the other specifications).
AggIdle ==
    /\ a_pc = "idle"
    /\ a_providers = <<>>
    /\ a_results = <<>>
    /\ a_done = <<>>
    /\ a_agg = NoAggregate
    /\ a_exc = ""

\* aichecker.py:15: check_async(AggText) has started every provider.
AggInit ==
    /\ a_pc = "gather"
    /\ a_providers \in ProviderLists
    /\ a_results = [i \in DOMAIN a_providers |-> NoResult]
    /\ a_done = <<>>
    /\ a_agg = NoAggregate
    /\ a_exc = ""

\* aichecker.py:15: a provider completes.  Its result goes to its slot of
\* the result list; an exception it raises leaves gather, and check_async,
\* at once, whatever the other providers are doing.
ProviderCompletes ==
    /\ a_pc = "gather"
    /\ \E i \in Pending :
         \E out \in Outcomes(a_providers[i], AggText) :
            /\ a_results' = [a_results EXCEPT ![i] = out]
            /\ a_done' = Append(a_done, i)
            /\ IF IsRaise(out)
               THEN a_pc' = "raised" /\ a_exc' = out.status
               ELSE UNCHANGED <<a_pc, a_exc>>
    /\ UNCHANGED <<a_providers, a_agg>>
    /\ UNCHANGED <<mainVars, batchVars, retryVars>>

\* aichecker.py:16-45: every provider returned; the results are merged.
AggMerge ==
    /\ a_pc = "gather"
    /\ Pending = {}
    /\ LET agg == CheckAsync(AggText, a_results)
       IN IF agg.raised # ""
          THEN a_pc' = "raised" /\ a_exc' = agg.raised /\ UNCHANGED a_agg
          ELSE a_pc' = "returned" /\ a_agg' = agg /\ UNCHANGED a_exc
    /\ UNCHANGED <<a_providers, a_results, a_done>>
    /\ UNCHANGED <<mainVars, batchVars, retryVars>>

AggNext ==
    \/ ProviderCompletes
    \/ AggMerge

---------------------------------------------------------------------------
(* The specifications. *)

Init == MainInit /\ BatchIdle /\ RetryIdle /\ AggIdle

Next == MainNext

Spec == Init /\ [][Next]_vars

\* Rounds the model runs in SpecLive before it stops exploring.
MaxLiveRounds == 3

\* main() as in Spec, exploring fewer rounds.
LiveNext ==
    \/ ReadFails
    \/ InitialCheck
    \/ StopCleared
    \/ StopTarget
    \/ StopRollbackLimit
    \/ StartRound /\ round_num < MaxLiveRounds
    \/ GenerateCandidate
    \/ RewriteFails
    \/ CheckCandidates
    \/ RollbackCheck
    \/ Cleanup

\* Every await of main() returns or raises in the end, and main() goes on.
Fairness == WF_vars(LiveNext)

SpecLive == Init /\ [][LiveNext]_vars /\ Fairness

InitBatch == MainInit /\ BatchInit /\ RetryIdle /\ AggIdle

SpecBatch == InitBatch /\ [][BatchNext]_vars

InitRetry == MainInit /\ BatchIdle /\ RetryInit /\ AggIdle

SpecRetry == InitRetry /\ [][RetryNext]_vars

InitAgg == MainInit /\ BatchIdle /\ RetryIdle /\ AggInit

SpecAgg == InitAgg /\ [][AggNext]_vars

\* The sentences the rewrite model answers with in SpecSelect: as many as
\* there are candidates, so that the candidates of a round can all differ.
SelectPool == (DocLen + 1) .. (DocLen + CHOICES)

\* main() about to evaluate the candidates of its first round (main.py:264):
\* the initial evaluation flagged every sentence of the essay with a score
\* above the target, and every candidate rewrote them with sentences of
\* SelectPool.
SelectInit ==
    /\ pc = "check"
    /\ current_text = Essay
    /\ previous_score \in {s \in Scores : s > TARGET_SCORE}
    /\ current_fake_sentences = Dedup(Essay)
    /\ best_ever_text = Essay
    /\ best_ever_score = previous_score
    /\ best_ever_round = 0
    /\ consecutive_rollbacks = 0
    /\ failure_history = NoNarrative
    /\ score_history = <<>>
    /\ sentence_history = [s \in Tokens |-> <<>>]
    /\ round_num = 0
    /\ candidates \in
          {[i \in 1 .. CHOICES |-> BuildCandidate(Essay, Dedup(Essay), rw[i])]
              : rw \in [1 .. CHOICES -> [1 .. DocLen -> SelectPool]]}
    /\ results = <<>>
    /\ last_evals = <<[phase |-> "initial", statuses |-> [i \in DOMAIN providers |-> "success"],
                       raised |-> "", fake_sentences |-> Dedup(Essay)]>>
    /\ reason = ""
    /\ final = <<>>
    /\ error = ""
    /\ closed = 0

InitSelect == SelectInit /\ BatchIdle /\ RetryIdle /\ AggIdle

\* The decision of the round, and the re-evaluation of a roll back.
SelectNext ==
    \/ CheckCandidates
    \/ RollbackCheck

SpecSelect == InitSelect /\ [][SelectNext]_vars

---------------------------------------------------------------------------
(* The round controller's properties, under Spec. *)

\* Every provider of an evaluation returned status "failed".
AllFailed(eval) == \A p \in DOMAIN eval.statuses : eval.statuses[p] = "failed"

\* The last entry of the round log.
LastLog == score_history[Len(score_history)]

\* The least overall score among a round's results.
MinScore(res) ==
    CHOOSE m \in {res[i].score : i \in DOMAIN res} : \A i \in DOMAIN res : m <= res[i].score

\* The candidate the round selects: the lowest index with the least score.
Selected(res) ==
    CHOOSE i \in DOMAIN res :
        /\ res[i].score = MinScore(res)
        /\ \A j \in DOMAIN res : res[j].score = MinScore(res) => i <= j

\* The decision step of a round: every candidate's evaluation returned.
Decides == pc = "check" /\ pc' # "fatal"

\* C1: in every evaluation in which every provider returned "failed" -- the
\* initial one, a candidate's, the re-evaluation of a roll back -- check_async
\* returns an aggregate and raises no division fault.
C1_AllFailedRaisesNoFault ==
    \A i \in DOMAIN last_evals :
        AllFailed(last_evals[i]) => last_evals[i].raised # "ZeroDivisionError"

\* C2, as claimed: the loop starts no round with MAX_ROLLBACKS consecutive
\* roll backs, and having stopped with that many its reason is
\* ROLLBACK_LIMIT and the text it reports is best_ever_text.
C2_StopsWithRollbackLimit ==
    /\ pc \in {"gen", "check"} => consecutive_rollbacks < MAX_ROLLBACKS
    /\ (pc \in {"done", "exit"} /\ consecutive_rollbacks = MAX_ROLLBACKS)
          => /\ reason = "ROLLBACK_LIMIT"
             /\ final.text = best_ever_text

\* C2, amended: the loop starts no round with MAX_ROLLBACKS consecutive roll
\* backs; it stops at that round boundary, with ROLLBACK_LIMIT when flagged
\* sentences remain and with CLEARED when the last re-evaluation left none;
\* what it reports is best_ever_text, score and round, of a round before the
\* rolled-back ones.
C2_StopsAfterRollbackLimit ==
    /\ pc \in {"gen", "check"} => consecutive_rollbacks < MAX_ROLLBACKS
    /\ (pc \in {"done", "exit"} /\ consecutive_rollbacks = MAX_ROLLBACKS)
          => /\ reason = IF current_fake_sentences = <<>> THEN "CLEARED" ELSE "ROLLBACK_LIMIT"
             /\ final = [text |-> best_ever_text, score |-> best_ever_score,
                         round |-> best_ever_round]
             /\ final.round <= round_num - MAX_ROLLBACKS
             /\ \A k \in 1 .. MAX_ROLLBACKS :
                    score_history[Len(score_history) - k + 1].rolled_back

\* C2's case: three rolled-back rounds, the loop stopped with ROLLBACK_LIMIT,
\* the candidate selected last differing from the text reported.
C2_Witness ==
    /\ pc = "done"
    /\ consecutive_rollbacks = MAX_ROLLBACKS
    /\ reason = "ROLLBACK_LIMIT"
    /\ final.text = best_ever_text
    /\ candidates[Selected(results)].text # final.text

\* C3: a round whose selected score is not below best_ever_score is rolled
\* back: consecutive_rollbacks grows by one, best_ever_* stay, the current
\* text and score are best_ever's, a log entry with accepted = FALSE is
\* appended; then the restored text is evaluated afresh, its flagged set
\* becomes the current one and the failure narrative is set.
C3_RolledBack ==
    /\ [][(Decides /\ MinScore(results') >= best_ever_score)
            => /\ pc' = "rollback_check"
               /\ consecutive_rollbacks' = consecutive_rollbacks + 1
               /\ UNCHANGED <<best_ever_text, best_ever_score, best_ever_round>>
               /\ current_text' = best_ever_text
               /\ previous_score' = best_ever_score
               /\ score_history' = Append(score_history, LastLog')
               /\ LastLog'.accepted = FALSE
               /\ LastLog'.best_candidate_score = MinScore(results')]_vars
    /\ [][pc = "rollback_check"
            => /\ pc' = "loop"
               /\ last_evals'[1].phase = "rollback"
               /\ current_fake_sentences' = last_evals'[1].fake_sentences
               /\ failure_history' # NoNarrative
               /\ UNCHANGED <<current_text, previous_score, best_ever_text,
                              best_ever_score, best_ever_round,
                              consecutive_rollbacks, score_history>>]_vars

\* C4: a round whose selected score is below best_ever_score is accepted:
\* best_ever_* and the current text, score and flagged set become the
\* selected candidate's, with the round's number; consecutive_rollbacks is 0,
\* the failure narrative is empty, a log entry with accepted = TRUE is appended.
C4_Accepted ==
    [][(Decides /\ MinScore(results') < best_ever_score)
         => LET sel == Selected(results')
            IN /\ pc' = "loop"
               /\ best_ever_text' = candidates[sel].text
               /\ best_ever_score' = results'[sel].score
               /\ best_ever_score' = MinScore(results')
               /\ best_ever_round' = round_num + 1
               /\ round_num' = round_num + 1
               /\ current_text' = candidates[sel].text
               /\ previous_score' = results'[sel].score
               /\ current_fake_sentences' = results'[sel].fake_sentences
               /\ consecutive_rollbacks' = 0
               /\ failure_history' = NoNarrative
               /\ score_history' = Append(score_history, LastLog')
               /\ LastLog'.accepted = TRUE
               /\ LastLog'.round = round_num + 1
               /\ LastLog'.best_candidate_score = MinScore(results')]_vars

\* C4's case: a round accepted right after a rolled-back one, the second
\* candidate being the one selected.
C4_Witness ==
    /\ pc = "loop"
    /\ Len(score_history) >= 2
    /\ LastLog.accepted
    /\ score_history[Len(score_history) - 1].rolled_back
    /\ failure_history = NoNarrative
    /\ consecutive_rollbacks = 0
    /\ Selected(results) = 2
    /\ best_ever_text = candidates[2].text

\* C5: at a round boundary the loop stops with CLEARED when no flagged
\* sentence is left; else with TARGET_REACHED when the score is at most the
\* target; else with ROLLBACK_LIMIT when the roll backs reached the limit;
\* and only when none holds does a round start.
C5_StopPriority ==
    [][pc = "loop"
         => IF current_fake_sentences = <<>>
            THEN pc' = "done" /\ reason' = "CLEARED"
            ELSE IF previous_score <= TARGET_SCORE
            THEN pc' = "done" /\ reason' = "TARGET_REACHED"
            ELSE IF consecutive_rollbacks >= MAX_ROLLBACKS
            THEN pc' = "done" /\ reason' = "ROLLBACK_LIMIT"
            ELSE pc' = "gen" /\ candidates' = <<>> /\ reason' = ""]_vars

\* C5's case: the loop stopped with CLEARED though the roll backs had also
\* reached the limit.
C5_Witness ==
    /\ pc = "done"
    /\ reason = "CLEARED"
    /\ consecutive_rollbacks >= MAX_ROLLBACKS

\* C6: when the initial evaluation flags nothing, the loop stops at once
\* with CLEARED: no round ran, no candidate was generated or evaluated, the
\* round log is empty, and the report is the essay with its initial score.
C6_NothingFlaggedInitially ==
    /\ []((pc \in {"loop", "done", "exit"} /\ round_num = 0 /\ current_fake_sentences = <<>>)
            => /\ candidates = <<>>
               /\ results = <<>>
               /\ score_history = <<>>
               /\ Len(last_evals) = 1
               /\ last_evals[1].phase = "initial"
               /\ current_text = Essay
               /\ pc # "loop" => /\ reason = "CLEARED"
                                 /\ final = [text |-> Essay, score |-> previous_score,
                                             round |-> 0])
    /\ [][(pc = "loop" /\ round_num = 0 /\ current_fake_sentences = <<>>)
            => pc' = "done" /\ round_num' = 0 /\ UNCHANGED previous_score]_vars

\* C6's case: nothing flagged initially, the score above the target, the
\* loop stopped.
C6_Witness ==
    /\ pc = "done"
    /\ round_num = 0
    /\ current_fake_sentences = <<>>
    /\ previous_score > TARGET_SCORE
    /\ reason = "CLEARED"

\* C16: at the decision of a round every candidate has its result, the
\* result at index i being the evaluation of candidate i whatever the order
\* the evaluations completed in; the selected candidate is the one of least
\* overall score, the lowest index among equals, and it is that candidate's
\* score that is logged and, when the round is accepted, that candidate's
\* text and flagged set that are committed.
C16_SelectsMinimumByIndex ==
    [][Decides
         => LET sel == Selected(results')
            IN /\ DOMAIN results' = DOMAIN candidates
               /\ \A i \in DOMAIN candidates : results'[i].text = candidates[i].text
               /\ \A i \in DOMAIN candidates :
                      /\ results'[sel].score <= results'[i].score
                      /\ i < sel => results'[sel].score < results'[i].score
               /\ LastLog'.best_candidate_score = results'[sel].score
               /\ LastLog'.accepted
                     => /\ current_text' = candidates[sel].text
                        /\ best_ever_text' = candidates[sel].text
                        /\ best_ever_score' = results'[sel].score
                        /\ current_fake_sentences' = results'[sel].fake_sentences]_vars

\* C16's case: two candidates of different texts and flagged sets with the
\* same score, below the best so far: the first is the one committed.
C16_Witness ==
    /\ pc = "loop"
    /\ LastLog.accepted
    /\ candidates[1].text # candidates[2].text
    /\ results[1].score = results[2].score
    /\ results[1].fake_sentences # results[2].fake_sentences
    /\ current_text = candidates[1].text
    /\ current_fake_sentences = results[1].fake_sentences

\* C16's other case: the second candidate has the least score.
C16_WitnessSecond ==
    /\ pc = "loop"
    /\ LastLog.accepted
    /\ candidates[1].text # candidates[2].text
    /\ results[2].score < results[1].score
    /\ current_text = candidates[2].text

\* The rewrite candidate i made of the sentence s.
RewriteOf(cands, i, s) ==
    LET p == CHOOSE q \in DOMAIN cands[i].rewrites : cands[i].rewrites[q][1] = s
    IN cands[i].rewrites[p][2]

\* The candidates, in order, that rewrote the sentence s into a sentence
\* their own evaluation still flags.
StillFlagged(s, cands, res) ==
    SelectSeq([i \in DOMAIN cands |-> i],
              LAMBDA i : \E q \in DOMAIN cands[i].rewrites :
                            /\ cands[i].rewrites[q][1] = s
                            /\ InSeq(cands[i].rewrites[q][2], res[i].fake_sentences))

\* The entries a decision step owes to the history of the sentence s.
EntriesOwed(s, cands, res, round) ==
    LET by == StillFlagged(s, cands, res)
    IN [k \in DOMAIN by |-> <<round, res[by[k]].score, RewriteOf(cands, by[k], s)>>]

\* C17: the decision step of a round, accepted or rolled back, appends to
\* the history of every original sentence one entry (round, candidate's
\* score, rewrite) for each candidate, selected or not, whose rewrite of that
\* sentence is in that candidate's flagged set, and none for the others; no
\* other step, the roll back included, touches sentence_history, so entries
\* are never removed or modified.
C17_HistoryAppends ==
    /\ [][Decides
            => \A s \in Tokens :
                  sentence_history'[s] =
                      sentence_history[s] \o EntriesOwed(s, candidates, results', round_num + 1)]_vars
    /\ [][~ Decides => UNCHANGED sentence_history]_vars

\* C17's case: an accepted round then a rolled-back one; both left entries,
\* the second one an entry of a candidate that was not the selected one and
\* none for the selected one.
C17_Witness ==
    /\ pc = "loop"
    /\ round_num = 2
    /\ score_history[1].accepted
    /\ score_history[2].rolled_back
    /\ \E s \in Tokens : \E k \in DOMAIN sentence_history[s] :
          sentence_history[s][k][1] = 1
    /\ \E s \in Tokens :
          /\ Len(StillFlagged(s, candidates, results)) = 1
          /\ StillFlagged(s, candidates, results)[1] # Selected(results)
          /\ sentence_history[s][Len(sentence_history[s])][1] = 2
          /\ sentence_history[s][Len(sentence_history[s])][2] > LastLog.best_candidate_score

\* C18: at every round boundary, and from there to the end of the round and
\* of the run, the working text is best_ever_text and the current score is
\* best_ever_score; the text reported at the end is the working text.
C18_CurrentIsBestAtBoundary ==
    /\ pc \in {"loop", "gen", "check", "rollback_check", "done", "exit"}
          => /\ current_text = best_ever_text
             /\ previous_score = best_ever_score
    /\ pc \in {"done", "exit"}
          => /\ final.text = current_text
             /\ final.score = previous_score

\* C18's case: a boundary after an accepted round and a rolled-back one whose
\* selected candidate differs from the text kept.
C18_Witness ==
    /\ pc = "loop"
    /\ round_num = 2
    /\ score_history[1].accepted
    /\ score_history[2].rolled_back
    /\ current_text # Essay
    /\ current_text = best_ever_text
    /\ results[Selected(results)].score > previous_score

\* The number of rolled-back rounds at the end of the round log.
RECURSIVE TrailingRollbacks(_)
TrailingRollbacks(log) ==
    IF log = <<>> \/ ~ log[Len(log)].rolled_back
    THEN 0
    ELSE 1 + TrailingRollbacks(SubSeq(log, 1, Len(log) - 1))

\* C19: after the initial evaluation best_ever_score never increases; it
\* decreases, strictly, in exactly the accepted rounds; consecutive_rollbacks
\* stays in 0 .. MAX_ROLLBACKS and is the number of rolled-back rounds since
\* the last accepted one, or since the start; every decision step appends one
\* entry to the round log, numbered by its round, with exactly one of accepted
\* and rolled_back set, and at every round boundary the log has one entry a
\* completed round.
C19_BestScoreAndRollbackCount ==
    /\ [](consecutive_rollbacks \in 0 .. MAX_ROLLBACKS)
    /\ [](consecutive_rollbacks = TrailingRollbacks(score_history))
    /\ [](\A k \in DOMAIN score_history :
             /\ score_history[k].round = k
             /\ score_history[k].accepted # score_history[k].rolled_back)
    /\ [](pc \in {"loop", "gen", "check", "done", "exit"} => Len(score_history) = round_num)
    /\ [][pc = "start" /\ pc' = "loop" => best_ever_score' = previous_score']_vars
    /\ [][pc # "start" => best_ever_score' <= best_ever_score]_vars
    /\ [][Decides
            => /\ score_history' = Append(score_history, LastLog')
               /\ LastLog'.accepted <=> best_ever_score' < best_ever_score
               /\ LastLog'.rolled_back <=> best_ever_score' = best_ever_score]_vars
    /\ [][~ Decides
            => /\ UNCHANGED score_history
               /\ pc # "start" => UNCHANGED <<best_ever_score, consecutive_rollbacks>>]_vars

\* C19's case: a rolled-back round, an accepted one, then a round whose best
\* candidate only equals the best score, rolled back.
C19_Witness ==
    /\ pc = "loop"
    /\ round_num = 3
    /\ score_history[1].rolled_back
    /\ score_history[2].accepted
    /\ score_history[3].rolled_back
    /\ score_history[3].best_candidate_score = best_ever_score
    /\ best_ever_score = score_history[2].best_candidate_score
    /\ consecutive_rollbacks = 1

---------------------------------------------------------------------------
(* The round controller's properties that need main() to go on, under      *)
(* SpecLive.                                                               *)

\* The ways the loop stops.
Reasons == {"CLEARED", "TARGET_REACHED", "ROLLBACK_LIMIT"}

\* C14: however the run ends -- the loop stopped for one of its three
\* reasons, or an exception left the round controller -- checker.close() is
\* run, in the end and exactly once: never before the end, never twice; a
\* run that ended on an exception raises it to the caller after the close.
C14_CleanupExactlyOnce ==
    /\ [](closed \in {0, 1})
    /\ [](closed = 1 <=> pc \in {"exit", "raised"})
    /\ [](pc = "fatal" => error # "")
    /\ [](pc = "raised" => error # "")
    /\ [](pc \in {"done", "exit"} => error = "" /\ reason \in Reasons)
    /\ [][pc = "fatal" => pc' = "raised" /\ closed' = 1 /\ error' = error]_vars
    /\ [][pc = "done" => pc' = "exit" /\ closed' = 1]_vars
    /\ [][pc \notin {"exit", "raised"}]_vars
    /\ (pc \in {"done", "fatal"}) ~> (closed = 1)

\* C14's cases: the re-evaluation of a roll back raised, the session was
\* closed and the exception raised to the caller ...
C14_Witness ==
    /\ pc = "raised"
    /\ closed = 1
    /\ error = "ZeroDivisionError"
    /\ last_evals[1].phase = "rollback"

\* ... a rewrite call ran out of retries in a later round ...
C14_WitnessRewrite ==
    /\ pc = "raised"
    /\ closed = 1
    /\ error = "RewriteError"
    /\ round_num >= 1

\* ... and the loop stopped at the roll back limit.
C14_WitnessStopped ==
    /\ pc = "exit"
    /\ closed = 1
    /\ reason = "ROLLBACK_LIMIT"

\* What is left to the loop: the scores below the best one, each worth
\* MAX_ROLLBACKS + 1 rounds, and the roll backs left before the limit.
Rank ==
    Cardinality({s \in Scores : s < best_ever_score}) * (MAX_ROLLBACKS + 1)
        + (MAX_ROLLBACKS - consecutive_rollbacks)

\* The largest Rank of a run.
RankBound == (Cardinality(Scores) - 1) * (MAX_ROLLBACKS + 1) + MAX_ROLLBACKS

\* The model stopped exploring: a round boundary after MaxRounds rounds with
\* no reason to stop.
RoundsCapped ==
    /\ pc = "loop"
    /\ round_num = MaxLiveRounds
    /\ ~ NoFlaggedLeft /\ ~ TargetReached /\ ~ RollbackLimitReached

\* C20: with overall scores out of the finite set Scores, every decision
\* step lowers Rank, an accepted round through a lower best_ever_score and
\* any other through one more consecutive roll back; Rank is never negative
\* and a round starts only with Rank above 0, so the rounds of a run are at
\* most RankBound; and every run in which main() goes on ends, with one of
\* CLEARED, TARGET_REACHED and ROLLBACK_LIMIT unless a call raised (or reaches
\* the MaxRounds rounds the model explores).
C20_LoopTerminates ==
    /\ [](pc \in {"loop", "gen", "check", "rollback_check", "done", "exit"}
            => best_ever_score \in Scores /\ Rank >= 0)
    /\ [](pc \in {"gen", "check"} => Rank >= 1)
    /\ [](round_num + Rank <= RankBound)
    /\ [][Decides => Rank' < Rank]_vars
    /\ [][round_num' # round_num => round_num' = round_num + 1 /\ Rank' <= Rank]_vars
    /\ [](pc = "exit" => reason \in Reasons /\ error = "")
    /\ <>(pc \in {"exit", "raised"} \/ RoundsCapped)

\* C20's case: an accepted round, a rolled-back one and an accepted one,
\* then the end at the target.
C20_Witness ==
    /\ pc = "exit"
    /\ reason = "TARGET_REACHED"
    /\ round_num = 3
    /\ score_history[1].accepted
    /\ score_history[2].rolled_back
    /\ score_history[3].accepted
    /\ Rank = MAX_ROLLBACKS

---------------------------------------------------------------------------
(* The dispatcher's properties, under SpecBatch. *)

\* ceil(n / b)
CeilDiv(n, b) == (n + b - 1) \div b

\* The k-th run of b consecutive tasks out of n, the last run possibly shorter.
Chunk(k, n, b) ==
    LET first == (k - 1) * b
        last  == IF k * b < n THEN k * b ELSE n
    IN [j \in 1 .. (last - first) |-> first + j - 1]

\* No task of the call raises.
NoTaskFails == \A k \in 0 .. NumTasks - 1 : ~ Raises(k)

\* The batch handed to gather last.
LastChunk == b_chunks[Len(b_chunks)]

\* C7: when no task fails, the call returns after exactly ceil(N / b)
\* chunks, the k-th being the k-th run of b consecutive tasks, and after
\* exactly ceil(N / b) - 1 pacing delays, the k-th taken when k chunks had run
\* and before chunk k + 1; no delay follows the last chunk.
C7_ChunksAndDelays ==
    LET c == CeilDiv(NumTasks, batch_size)
    IN /\ (b_pc # "idle" /\ NoTaskFails)
            => /\ b_pc # "raised"
               /\ Len(b_chunks) <= c
               /\ Len(b_sleeps) <= c - 1
               /\ Len(b_sleeps) \in {Len(b_chunks) - 1, Len(b_chunks)}
       /\ b_pc = "returned"
            => /\ NoTaskFails
               /\ Len(b_chunks) = c
               /\ \A k \in 1 .. c : b_chunks[k] = Chunk(k, NumTasks, batch_size)
               /\ Len(b_sleeps) = c - 1
               /\ \A k \in 1 .. c - 1 :
                      b_sleeps[k] = [i |-> (k - 1) * batch_size, after |-> k]
               /\ b_results = [j \in 1 .. NumTasks |-> j - 1]

\* C7's case: five tasks in batches of two: three chunks, the last of one
\* task, and two delays.
C7_Witness ==
    /\ b_pc = "returned"
    /\ NumTasks = 5
    /\ batch_size = 2
    /\ Len(b_chunks) = 3
    /\ Len(LastChunk) = 1
    /\ Len(b_sleeps) = 2

\* No task starts before every task of the earlier chunks has completed.
ChunksInOrder ==
    \A k \in b_started :
        \A j \in 0 .. NumTasks - 1 :
            (j \div batch_size) < (k \div batch_size) => j \in b_done

\* The call was aborted in its last chunk: every task of that chunk
\* completed, no later task was started, no delay followed the chunk.
AbortedInLastChunk ==
    /\ Members(LastChunk) \subseteq b_done
    /\ b_started = UNION {Members(b_chunks[c]) : c \in DOMAIN b_chunks}
    /\ \A k \in b_started : k <= LastChunk[Len(LastChunk)]
    /\ Len(b_sleeps) = Len(b_chunks) - 1
    /\ Len(b_results) = (Len(b_chunks) - 1) * batch_size

\* C8, as claimed: chunks run in order, and when a task of a chunk raises the
\* call is aborted with that task's exception, whichever task it is.
C8_AnyFailureIsTheOneRaised ==
    /\ b_pc # "idle" => ChunksInOrder
    /\ b_pc = "raised"
          => /\ AbortedInLastChunk
             /\ \A k \in Members(LastChunk) : Raises(k) => b_exc = k

\* C8, amended: chunks run in order; a chunk with a failing task aborts the
\* call once all its tasks have completed, and the exception raised is that
\* of the failing task of lowest index in the chunk; no later chunk is
\* started and no delay follows.
C8_FirstFailureByIndexIsRaised ==
    /\ [](b_pc # "idle" => ChunksInOrder)
    /\ [](b_pc = "raised"
            => /\ AbortedInLastChunk
               /\ b_exc \in Members(LastChunk)
               /\ Raises(b_exc)
               /\ \A k \in Members(LastChunk) : Raises(k) => b_exc <= k)
    /\ [][(b_pc = "gather" /\ b_pc' # "gather")
            => /\ Members(LastChunk) \subseteq b_done
               /\ (b_pc' = "raised") <=> (\E k \in Members(LastChunk) : Raises(k))]_vars

\* C8's case: two tasks of the second chunk raise, a third chunk is left.
C8_Witness ==
    /\ b_pc = "raised"
    /\ Len(b_chunks) = 2
    /\ Cardinality({k \in Members(LastChunk) : Raises(k)}) = 2
    /\ NumTasks > LastChunk[Len(LastChunk)] + 1

---------------------------------------------------------------------------
(* The retry loops' properties, under SpecRetry. *)

\* Every invocation so far ended with a failure the loop retries: a rate
\* limit or a connection error.
AllRetried ==
    /\ r_log # <<>>
    /\ \A i \in DOMAIN r_log :
          IF r_kind = "rewrite"
          THEN r_log[i] \in {"RateLimitError", "APIConnectionError"}
          ELSE r_log[i] \in {"429", "ClientError"}

\* C9: a rewrite call rate-limited four times and then answered returns the
\* answer and raises nothing, after exactly five invocations and exactly four
\* delays, each longer than the one before: the k-th is 2^(k-1) seconds plus
\* an offset below one second.
C9_FourBackoffsThenSuccess ==
    (/\ r_kind = "rewrite"
     /\ r_log = <<"RateLimitError", "RateLimitError", "RateLimitError",
                  "RateLimitError", "ok">>)
       => /\ r_pc = "returned"
          /\ r_value = "result"
          /\ r_exc = ""
          /\ Len(r_delays) = 4
          /\ \A k \in 1 .. 4 :
                /\ r_delays[k] >= TicksPerSecond * (2 ^ (k - 1))
                /\ r_delays[k] < TicksPerSecond * (2 ^ (k - 1)) + TicksPerSecond
          /\ \A k \in 1 .. 3 : r_delays[k] < r_delays[k + 1]

\* C9's case, with the largest offset on the first delay and none on the second.
C9_Witness ==
    /\ r_kind = "rewrite"
    /\ r_log = <<"RateLimitError", "RateLimitError", "RateLimitError",
                 "RateLimitError", "ok">>
    /\ r_pc = "returned"
    /\ r_delays[1] = 2 * TicksPerSecond - 1
    /\ r_delays[2] = 2 * TicksPerSecond

\* C10: a call whose every attempt fails with a rate limit or a connection
\* error invokes the operation exactly max_retries times, sleeps after each
\* attempt but the last, and then: a provider returns "failed" and raises
\* nothing; api_call_with_backoff raises the last error.
C10_RetriesExhausted ==
    /\ r_pc # "idle" => Len(r_log) <= max_retries
    /\ AllRetried
         => IF Len(r_log) < max_retries
            THEN /\ r_pc \in {"call", "sleep"}
                 /\ Len(r_delays) = Len(r_log)
                 /\ r_value = "" /\ r_exc = ""
            ELSE /\ Len(r_log) = max_retries
                 /\ Len(r_delays) = max_retries - 1
                 /\ IF r_kind = "rewrite"
                    THEN r_pc = "raised" /\ r_exc = r_log[max_retries] /\ r_value = ""
                    ELSE r_pc = "returned" /\ r_value = "failed" /\ r_exc = ""

\* C10's cases: a rewrite call out of attempts, the last error a connection
\* error after a rate limit ...
C10_Witness ==
    /\ r_kind = "rewrite"
    /\ AllRetried
    /\ Len(r_log) = max_retries
    /\ r_log[max_retries - 1] = "RateLimitError"
    /\ r_exc = "APIConnectionError"

\* ... and a provider out of attempts.
C10_WitnessProvider ==
    /\ r_kind = "zerogpt"
    /\ AllRetried
    /\ Len(r_log) = max_retries
    /\ r_value = "failed"

\* C11: a provider call never raises past its boundary: whatever its
\* requests end with -- an HTTP error status, a connection error, a timeout,
\* a body that does not parse, a body whose fields are missing or of another
\* shape -- the provider is retrying, or has returned a result or "failed".
C11_ProviderNeverRaises ==
    r_kind \in {"zerogpt", "originality"} => (r_pc # "raised" /\ r_exc = "")

\* The responses that are malformed: a body that lacks the data, lacks a
\* field, does not parse or has another shape; for a rewrite request, a
\* response that does not parse into a completion.
Malformed ==
    {"NoData", "KeyError", "JSONDecodeError", "TypeError", "APIResponseValidationError"}

\* C15: an attempt that ends with a malformed response, the budget of
\* max_retries attempts not yet used up, is followed by the delay
\* base_delay * 2^attempt and another attempt; nothing is raised or returned
\* to the caller -- in the providers and in api_call_with_backoff alike.
C15_MalformedIsRetried ==
    (/\ r_log # <<>>
     /\ r_log[Len(r_log)] \in Malformed
     /\ Len(r_log) < max_retries)
       => /\ r_pc \in {"sleep", "call"}
          /\ r_exc = ""
          /\ r_value = ""
          /\ Len(r_delays) = Len(r_log)
          /\ r_delays[Len(r_log)] = TicksPerSecond * base_delay * (2 ^ (Len(r_log) - 1))

---------------------------------------------------------------------------
(* The aggregator's properties, under SpecAgg. *)

\* C11, for the fan-out: check_async leaves gather only when every provider
\* has completed, and no provider's failure makes it raise.
C11_FanOutCompletes ==
    /\ a_pc \in {"returned", "raised"} => Pending = {}
    /\ a_pc = "raised" => a_exc \notin Uncaught

\* The providers of the call that returned success.
SuccessfulProviders == {i \in DOMAIN a_results : a_results[i].status = "success"}

\* Where the successful providers report the sentence t: <<provider, position>>.
Occurrences(t) ==
    UNION {{<<i, j>> : j \in {k \in DOMAIN a_results[i].sentences :
                                 a_results[i].sentences[k].text = t}}
              : i \in SuccessfulProviders}

\* The sum of the scores reported at the occurrences occ.
RECURSIVE SumOfScores(_)
SumOfScores(occ) ==
    IF occ = {} THEN 0
    ELSE LET p == CHOOSE q \in occ : TRUE
         IN a_results[p[1]].sentences[p[2]].score + SumOfScores(occ \ {p})

\* C12: when check_async returns, a sentence is in fake_sentences, once, if
\* and only if successful providers report it and the mean of all the scores
\* they report for that very text is above 50; a mean of exactly 50 -- one
\* provider's 80 and another's 20 -- does not flag it.
C12_FlaggedIffMeanAbove50 ==
    a_pc = "returned"
       => /\ \A t \in Tokens :
                InSeq(t, a_agg.fake_sentences)
                   <=> /\ Occurrences(t) # {}
                       /\ SumOfScores(Occurrences(t)) > 50 * Cardinality(Occurrences(t))
          /\ \A j, k \in DOMAIN a_agg.fake_sentences :
                a_agg.fake_sentences[j] = a_agg.fake_sentences[k] => j = k

\* C12's case: sentence 1 scored 80 by the first provider and 20 by the
\* second is not flagged; sentence 2, scored 100 and 20, is.
C12_Witness ==
    /\ a_pc = "returned"
    /\ Len(a_providers) = 2
    /\ \E j \in DOMAIN a_results[1].sentences :
          a_results[1].sentences[j] = [text |-> 1, score |-> 80]
    /\ \E j \in DOMAIN a_results[2].sentences :
          a_results[2].sentences[j] = [text |-> 1, score |-> 20]
    /\ SumOfScores(Occurrences(2)) = 120
    /\ a_agg.fake_sentences = <<2>>

\* The sum of the overall scores of the providers ps.
RECURSIVE SumOfOverall(_)
SumOfOverall(ps) ==
    IF ps = {} THEN 0
    ELSE LET i == CHOOSE q \in ps : TRUE
         IN a_results[i].score + SumOfOverall(ps \ {i})

\* The k-th least member of a set of numbers.
RECURSIVE Kth(_, _)
Kth(S, k) ==
    LET least == CHOOSE x \in S : \A y \in S : x <= y
    IN IF k = 1 THEN least ELSE Kth(S \ {least}, k - 1)

\* C13: when check_async returns, at least one provider succeeded; the
\* overall score is the mean (to the whole number below, the model's scores
\* being whole numbers) of the overall scores of the successful providers and
\* of no other; the providers listed are the successful ones, in the order of
\* self.providers, whatever the order they completed in.
C13_MeanOfSuccessful ==
    a_pc = "returned"
       => LET n     == Cardinality(SuccessfulProviders)
              total == SumOfOverall(SuccessfulProviders)
          IN /\ n >= 1
             /\ n * a_agg.score <= total
             /\ total < n * (a_agg.score + 1)
             /\ Len(a_agg.providers) = n
             /\ \A k \in 1 .. n :
                   a_agg.providers[k] = a_providers[Kth(SuccessfulProviders, k)]

\* C13's cases: the provider registered second completed first and the one
\* registered first then failed: the aggregate is the second's alone ...
C13_Witness ==
    /\ a_pc = "returned"
    /\ a_providers = <<"zerogpt", "originality">>
    /\ a_done = <<2, 1>>
    /\ a_results[1].status = "failed"
    /\ a_agg.providers = <<"originality">>
    /\ a_agg.score = a_results[2].score
    /\ a_agg.score > 0

\* ... and both succeeded, the second completing first: the mean of the two,
\* the providers in the order of registration.
C13_WitnessBoth ==
    /\ a_pc = "returned"
    /\ a_providers = <<"zerogpt", "originality">>
    /\ a_done = <<2, 1>>
    /\ a_agg.providers = a_providers
    /\ a_results[1].score # a_results[2].score
    /\ 2 * a_agg.score = a_results[1].score + a_results[2].score

===========================================================================
